---- MODULE Spec2Model ----
(***************************************************************************)
(* A model of ch8/deep_ac_agent.py: the actor-critic agent's n-step        *)
(* return, its observation/action adapters, the Gaussian policy wrapper,   *)
(* the one-step TD update and the n-step training loop run().              *)
(*                                                                         *)
(* Numbers are exact rationals [num, den] in lowest terms (den > 0); the   *)
(* rounding of 32-bit floats is not modelled.                              *)
(***************************************************************************)
EXTENDS Integers, Sequences, FiniteSets, TLC

VARIABLES
  \* ---- calculate_n_step_return, called as learn() calls it ----
  ret_pc,            \* "idle" | "ready" | "returned"
  self_gamma,        \* self.gamma of the agent the function is called on
  n_step_rewards,    \* the reward list passed in
  ret_done,          \* the done flag passed in
  final_value,       \* the critic output self.actor_critic(preproc_obs(final_state))[2]
  g_t_n_s,           \* the list returned
  prev_call,         \* <<>>, or one record [final_value, g_t_n_s] of an earlier call on the same rewards
  \* ---- the adapters and the policy wrapper, each called on its own ----
  ad_op,             \* which function the inputs are for: "process_action" | "preproc_obs" | "policy" | "idle"
  action_in,         \* process_action: the sampled action tensor passed in
  action_out,        \* process_action: <<>> before the call, <<result>> after it
  obs_in,            \* preproc_obs: the observation passed in
  obs_once,          \* <<preproc_obs(obs_in)>> once computed
  obs_twice,         \* <<preproc_obs(preproc_obs(obs_in))>> once computed
  net_out,           \* policy: the network's raw output [mu, sigma, value] for the observation
  self_mu,           \* self.mu (<<>> before the first policy query)
  self_sigma,        \* self.sigma
  self_value,        \* self.value
  action_distribution, \* self.action_distribution
  \* ---- learn_td_ac, the one-step update ----
  td_pc,             \* "idle" | "start" | "queried_s_t" | "queried_s_tp1" | "loss" | "stepped"
  td_args,           \* the arguments [s_t, a_t, r, s_tp1, done]
  tensors,           \* the critic-output tensor objects created so far: object i holds tensors[i]
  value_ref,         \* self.value: the object it refers to
  v_st,              \* line 223 (a reference; 0 before it is assigned)
  v_stp1,            \* line 225 (a reference; 0 before it is assigned)
  td_target,         \* line 226 (<<>> before it is computed)
  td_err,            \* line 227
  loss,              \* line 228
  critic_outputs,    \* the critic outputs of this call's policy queries, in order
  \* ---- run(max_episodes, n_step_learning_step_thresh) ----
  pc,                \* "idle" | "for" | "while" | "step" | "check" | "post" | "finished"
  max_episodes,
  n_step_learning_step_thresh,
  episode,           \* the loop variable of line 243 (-1 before the first iteration)
  obs,
  action,            \* line 249
  next_obs,
  reward,
  done,
  ep_reward,
  step_num,
  trajectory,        \* self.trajectory
  rewards,           \* self.rewards
  global_step_num,   \* self.global_step_num
  theta,             \* the number of optimizer steps taken: the version of the network's parameters
  \* history, kept for the properties only
  reward_steps,      \* for each entry of rewards, the [episode, step_num] of the step it came from
  window,            \* the [episode, step_num] of the steps taken since the last learn call
  last_learn,        \* <<>>, or the last learn call: its arguments, what it read and computed
  episodes_ended     \* the number of episodes whose while loop has ended (line 260)

retVars == <<ret_pc, self_gamma, n_step_rewards, ret_done, final_value, g_t_n_s,
             prev_call>>

adVars == <<ad_op, action_in, action_out, obs_in, obs_once, obs_twice, net_out,
            self_mu, self_sigma, self_value, action_distribution>>

tdVars == <<td_pc, td_args, tensors, value_ref, v_st, v_stp1, td_target, td_err, loss,
            critic_outputs>>

runVars == <<pc, max_episodes, n_step_learning_step_thresh, episode, obs, action, next_obs,
             reward, done, ep_reward, step_num, trajectory, rewards, global_step_num, theta,
             reward_steps, window, last_learn, episodes_ended>>

vars == <<retVars, adVars, tdVars, runVars>>

-----------------------------------------------------------------------------
(* Exact rational arithmetic                                               *)

Abs(x) == IF x < 0 THEN -x ELSE x

RECURSIVE Gcd(_, _)
Gcd(a, b) == IF b = 0 THEN a ELSE Gcd(b, a % b)

Rat(n, d) ==
  LET g == Gcd(Abs(n), Abs(d))
      s == IF d < 0 THEN -1 ELSE 1
  IN  [num |-> (s * n) \div g, den |-> (s * d) \div g]

Int2Rat(n) == [num |-> n, den |-> 1]
Zero == Int2Rat(0)
One == Int2Rat(1)

Lcm(a, b) == (a \div Gcd(a, b)) * b

RAdd(a, b) ==
  LET l == Lcm(a.den, b.den)
  IN  Rat(a.num * (l \div a.den) + b.num * (l \div b.den), l)
RNeg(a) == [num |-> -a.num, den |-> a.den]
RSub(a, b) == RAdd(a, RNeg(b))
RMul(a, b) ==
  LET g1 == Gcd(Abs(a.num), b.den)
      g2 == Gcd(Abs(b.num), a.den)
  IN  Rat((a.num \div g1) * (b.num \div g2), (a.den \div g2) * (b.den \div g1))
RLt(a, b) == a.num * b.den < b.num * a.den
RLeq(a, b) == a.num * b.den <= b.num * a.den

RECURSIVE RPow(_, _)
RPow(a, k) == IF k = 0 THEN One ELSE RMul(a, RPow(a, k - 1))

\* torch.clamp(x, lo, hi) on one element
Clamp(x, lo, hi) == IF RLt(x, lo) THEN lo ELSE IF RLt(hi, x) THEN hi ELSE x

-----------------------------------------------------------------------------
(* Bounds of the model                                                     *)

MaxRewards == 3      \* longest reward list handed to calculate_n_step_return

\* rewards, discount factors and critic outputs the inputs are drawn from
RewardSet == {Int2Rat(1), Int2Rat(2), Int2Rat(-1)}
GammaSet == {Rat(1, 2), Rat(9, 10), One}
ValueSet == {Int2Rat(10), Rat(-1, 2), Zero}

RECURSIVE SeqsUpTo(_, _)
SeqsUpTo(S, n) ==
  IF n = 0 THEN {<<>>}
  ELSE LET shorter == SeqsUpTo(S, n - 1)
       IN  shorter \cup {Append(s, x) : s \in {t \in shorter : Len(t) = n - 1}, x \in S}

-----------------------------------------------------------------------------
(* calculate_n_step_return (lines 179-193)                                 *)

\* line 189: g_t_n = 0 if done else self.actor_critic(self.preproc_obs(final_state))[2]
BootstrapAlways(is_done, v_final) == v_final
Bootstrap(is_done, v_final) == IF is_done THEN Zero ELSE v_final

\* line 191: g_t_n = torch.tensor(r_t) + self.gamma * g_t_n
NStepBackupNoDiscount(r_t, gamma_self, g_t_n) == RAdd(r_t, g_t_n)
NStepBackup(r_t, gamma_self, g_t_n) == RAdd(r_t, RMul(gamma_self, g_t_n))

\* line 192: g_t_n_s.insert(0, g_t_n)
InsertRight(list, g_t_n) == Append(list, g_t_n)
InsertLeft(list, g_t_n) == <<g_t_n>> \o list

\* The gamma parameter is never read: line 191 uses self.gamma.  v_final is the
\* critic's output for final_state, read at line 189 only when done is false.
calculate_n_step_return(gamma_self, rewards_in, v_final, is_done, gamma) ==
  LET RECURSIVE Loop(_, _, _)
      \* for r_t in n_step_rewards[::-1]
      Loop(i, g_t_n, list) ==
        IF i = 0 THEN list
        ELSE LET g == NStepBackup(rewards_in[i], gamma_self, g_t_n)
             IN  Loop(i - 1, g, InsertLeft(list, g))
  IN  Loop(Len(rewards_in), Bootstrap(is_done, v_final), <<>>)

-----------------------------------------------------------------------------
(* Tensors.  An action or network-output tensor is [kind |-> "tensor",     *)
(* shape, flat]: its shape and its elements in row-major order.  A failed  *)
(* call is [kind |-> <the exception's name>].                              *)

RECURSIVE Prod(_)
Prod(shape) == IF shape = <<>> THEN 1 ELSE Head(shape) * Prod(Tail(shape))

Tensor(shape, flat) == [kind |-> "tensor", shape |-> shape, flat |-> flat]
Raised(exception) == [kind |-> exception]

\* x.squeeze(): every dimension of size 1 is removed
RECURSIVE SqueezeShape(_)
SqueezeShape(shape) ==
  IF shape = <<>> THEN <<>>
  ELSE IF Head(shape) = 1 THEN SqueezeShape(Tail(shape))
       ELSE <<Head(shape)>> \o SqueezeShape(Tail(shape))

squeeze(x) == [x EXCEPT !.shape = SqueezeShape(x.shape)]

\* x.unsqueeze(0): a leading dimension of size 1 is added
unsqueeze0_none(x) == x
unsqueeze0(x) == [x EXCEPT !.shape = <<1>> \o x.shape]

\* torch.clamp(x, lo, hi), element by element
clamp_none(x, lo, hi) == x
clamp(x, lo, hi) == [x EXCEPT !.flat = [i \in DOMAIN x.flat |-> Clamp(x.flat[i], lo, hi)]]

\* x[i] for a tensor of rank >= 1 (0-based i): the flat positions it covers
RowPositions(x, i) ==
  LET stride == Prod(Tail(x.shape))
  IN  (i * stride + 1)..((i + 1) * stride)

\* x[i] = clamp(x[i], lo, hi) + eps, in place
ClampRow(x, i, lo, hi, eps) ==
  [x EXCEPT !.flat = [p \in DOMAIN x.flat |->
      IF p \in RowPositions(x, i) THEN RAdd(Clamp(x.flat[p], lo, hi), eps)
      ELSE x.flat[p]]]

-----------------------------------------------------------------------------
(* process_action (lines 159-167)                                          *)

GasEpsilon == Rat(1, 10000)    \* 1e-4, line 166

\* The condition of lines 163 and 165: len(action.shape), the rank of the tensor
ShapeLen(a) == Len(a.shape)

process_action(a) ==
  LET a0 == squeeze(a)                                           \* line 160
      a1 == IF Len(a0.shape) = 0 THEN unsqueeze0(a0) ELSE a0     \* lines 161-162
      a2 == IF ShapeLen(a1) > 1                                  \* lines 163-164
            THEN ClampRow(a1, 1, Zero, One, Zero) ELSE a1
  IN  IF ShapeLen(a2) > 2                                        \* lines 165-166
      THEN IF a2.shape[1] > 2
           THEN ClampRow(a2, 2, Zero, One, GasEpsilon)
           ELSE Raised("IndexError")
      ELSE a2                                                    \* line 167

-----------------------------------------------------------------------------
(* preproc_obs (lines 150-157).  An observation is [kind, dtype, shape,    *)
(* data]; kind is "ndarray" or "tensor".  data = [src, len, wraps] stands  *)
(* for len elements in row-major order, element i (0-based) being element  *)
(* (..(i % wraps[1]) % wraps[2] ..) of the source array src.               *)

ResizeShape == <<3, 84, 84>>     \* line 154

NdArray(src, dtype, shape) ==
  [kind |-> "ndarray", dtype |-> dtype, shape |-> shape,
   data |-> [src |-> src, len |-> Prod(shape), wraps |-> <<>>]]

\* np.reshape(a, newshape): same elements in the same row-major order
np_reshape(a, newshape) ==
  IF Prod(newshape) = a.data.len THEN [a EXCEPT !.shape = newshape]
  ELSE Raised("ValueError")

\* np.resize(a, newshape): the flat data repeated cyclically, or cut, to fill newshape
np_resize(a, newshape) ==
  LET n == Prod(newshape)
  IN  [a EXCEPT !.shape = newshape,
                !.data = [src |-> a.data.src, len |-> n,
                          wraps |-> IF n <= a.data.len THEN a.data.wraps
                                    ELSE <<a.data.len>> \o a.data.wraps]]

\* torch.from_numpy(a): accepts a numpy array only
torch_from_numpy(a) ==
  IF a.kind = "ndarray" THEN [a EXCEPT !.kind = "tensor"] ELSE Raised("TypeError")

\* x.float()
to_float(x) == [x EXCEPT !.dtype = "float32"]

preproc_obs(o) ==
  LET o1 == IF Len(o.shape) = 3                                    \* line 151
            THEN np_resize(np_reshape(o, <<o.shape[3], o.shape[2], o.shape[1]>>),
                           ResizeShape)                            \* lines 153-154
            ELSE o
      t == torch_from_numpy(o1)                                    \* line 156
  IN  IF t.kind = "tensor" THEN to_float(unsqueeze0(t)) ELSE t

-----------------------------------------------------------------------------
(* multi_variate_gaussian_policy (lines 131-148).  The network's raw       *)
(* output for the observation is [mu, sigma, value]: mu and sigma of shape *)
(* (1, action_shape), value of shape (1, 1).  Softplus is not computed:    *)
(* an element of sigma is kept as [softplus_of, plus].                     *)

SigmaFloor == Rat(1, 10000000)   \* 1e-7, line 139

softplus_plus(x, eps) ==
  [x EXCEPT !.flat = [i \in DOMAIN x.flat |-> [softplus_of |-> x.flat[i], plus |-> eps]]]

\* line 138
policy_mu(mu) == squeeze(clamp(mu, Int2Rat(-1), One))
\* line 139
policy_sigma(sigma) == squeeze(softplus_plus(sigma, SigmaFloor))
\* lines 141, 144-146
stored_mu(mu) == IF Len(mu.shape) = 0 THEN unsqueeze0(mu) ELSE mu
\* line 147: MultivariateNormal(self.mu, torch.eye(self.action_shape) * self.sigma)
MultivariateNormal(loc, sigma) == [loc |-> loc, covariance_diag |-> sigma]

-----------------------------------------------------------------------------
(* Specification SpecAdapters: process_action, preproc_obs and the policy  *)
(* wrapper, each applied to inputs drawn from bounded sets.                *)

MaxActionDim == 3     \* largest action_shape (number of action components)

ActionValues == {Rat(1, 2), Rat(-1, 5), Rat(3, 2)}
MuValues == {Rat(-3, 2), Int2Rat(-1), Rat(1, 2), Int2Rat(2)}
SigmaValues == {Zero, Int2Rat(-1)}

\* a tensor of the given shape whose elements cycle through vals from offset off
Patterned(shape, vals, off) ==
  Tensor(shape, [i \in 1..Prod(shape) |-> vals[((i - 1 + off) % Len(vals)) + 1]])

\* Samples as get_action passes them (shape (k,)), batched samples (1, k), a
\* 0-dimensional sample, and tensors of rank 2 and 3
ActionInputs ==
  {Tensor(<<Len(f)>>, f) : f \in SeqsUpTo(ActionValues, MaxActionDim) \ {<<>>}}
  \cup {Tensor(<<1, Len(f)>>, f) : f \in SeqsUpTo(ActionValues, MaxActionDim) \ {<<>>}}
  \cup {Tensor(<<>>, <<v>>) : v \in ActionValues}
  \cup {Patterned(sh, <<Rat(3, 2), Rat(-1, 5), Rat(1, 2)>>, off) :
          sh \in {<<2, 2>>, <<2, 2, 2>>, <<3, 2, 2>>}, off \in 0..2}

ObsInputs ==
  {NdArray(src, dtype, shape) :
     src \in {"frame_a", "frame_b"}, dtype \in {"uint8", "float64"},
     shape \in {<<84, 84, 3>>, <<96, 96, 3>>, <<2, 2, 3>>, <<4>>}}

NetOutputs ==
  {[mu |-> Tensor(<<1, Len(m)>>, m),
    sigma |-> Tensor(<<1, Len(m)>>, [i \in 1..Len(m) |-> s]),
    value |-> Tensor(<<1, 1>>, <<v>>)] :
     m \in SeqsUpTo(MuValues, MaxActionDim) \ {<<>>}, s \in SigmaValues, v \in {Rat(1, 2)}}

NoTensor == Tensor(<<>>, <<Zero>>)
NoObs == NdArray("none", "uint8", <<1>>)
NoNetOut == [mu |-> NoTensor, sigma |-> NoTensor, value |-> NoTensor]

RetIdle ==
  /\ ret_pc = "idle"
  /\ n_step_rewards = <<>>
  /\ ret_done = FALSE
  /\ final_value = Zero
  /\ g_t_n_s = <<>>
  /\ prev_call = <<>>

RunIdle ==
  /\ pc = "idle"
  /\ max_episodes = 0
  /\ n_step_learning_step_thresh = 0
  /\ episode = -1
  /\ obs = NoObs
  /\ action = NoTensor
  /\ next_obs = NoObs
  /\ reward = Zero
  /\ done = FALSE
  /\ ep_reward = Zero
  /\ step_num = 0
  /\ trajectory = <<>>
  /\ rewards = <<>>
  /\ global_step_num = 0
  /\ theta = 0
  /\ reward_steps = <<>>
  /\ window = <<>>
  /\ last_learn = <<>>
  /\ episodes_ended = 0

TdIdle ==
  /\ td_pc = "idle"
  /\ td_args = [s_t |-> NoObs, a_t |-> NoTensor, r |-> Zero, s_tp1 |-> NoObs, done |-> FALSE]
  /\ tensors = <<>>
  /\ value_ref = 0
  /\ v_st = 0
  /\ v_stp1 = 0
  /\ td_target = <<>>
  /\ td_err = <<>>
  /\ loss = <<>>
  /\ critic_outputs = <<>>

AdIdle ==
  /\ ad_op = "idle"
  /\ action_in = NoTensor
  /\ action_out = <<>>
  /\ obs_in = NoObs
  /\ obs_once = <<>>
  /\ obs_twice = <<>>
  /\ net_out = NoNetOut
  /\ self_mu = <<>>
  /\ self_sigma = <<>>
  /\ self_value = <<>>
  /\ action_distribution = <<>>


InitAdapters ==
  /\ RunIdle
  /\ RetIdle
  /\ TdIdle
  /\ self_gamma = One
  /\ \/ /\ ad_op = "process_action"
        /\ action_in \in ActionInputs
        /\ obs_in = NoObs
        /\ net_out = NoNetOut
     \/ /\ ad_op = "preproc_obs"
        /\ action_in = NoTensor
        /\ obs_in \in ObsInputs
        /\ net_out = NoNetOut
     \/ /\ ad_op = "policy"
        /\ action_in = NoTensor
        /\ obs_in = NoObs
        /\ net_out \in NetOutputs
  /\ action_out = <<>>
  /\ obs_once = <<>>
  /\ obs_twice = <<>>
  /\ self_mu = <<>>
  /\ self_sigma = <<>>
  /\ self_value = <<>>
  /\ action_distribution = <<>>

ProcessAction ==
  /\ ad_op = "process_action"
  /\ action_out = <<>>
  /\ action_out' = <<process_action(action_in)>>
  /\ UNCHANGED <<ad_op, action_in, obs_in, obs_once, obs_twice, net_out,
                 self_mu, self_sigma, self_value, action_distribution>>
  /\ UNCHANGED <<retVars, tdVars, runVars>>

PreprocObs ==
  /\ ad_op = "preproc_obs"
  /\ obs_once = <<>>
  /\ obs_once' = <<preproc_obs(obs_in)>>
  /\ UNCHANGED <<ad_op, action_in, action_out, obs_in, obs_twice, net_out,
                 self_mu, self_sigma, self_value, action_distribution>>
  /\ UNCHANGED <<retVars, tdVars, runVars>>

\* preproc_obs applied to its own result
PreprocObsAgain ==
  /\ ad_op = "preproc_obs"
  /\ obs_once # <<>>
  /\ obs_once[1].kind = "tensor"
  /\ obs_twice = <<>>
  /\ obs_twice' = <<preproc_obs(obs_once[1])>>
  /\ UNCHANGED <<ad_op, action_in, action_out, obs_in, obs_once, net_out,
                 self_mu, self_sigma, self_value, action_distribution>>
  /\ UNCHANGED <<retVars, tdVars, runVars>>

\* multi_variate_gaussian_policy on an observation for which the network gives net_out
PolicyQuery ==
  /\ ad_op = "policy"
  /\ self_mu = <<>>
  /\ LET mu == policy_mu(net_out.mu)
         sigma == policy_sigma(net_out.sigma)
     IN  /\ self_sigma' = <<sigma>>                                   \* lines 140, 142
         /\ self_value' = <<net_out.value>>                           \* line 143
         /\ self_mu' = <<stored_mu(mu)>>                              \* lines 141-146
         /\ action_distribution' = <<MultivariateNormal(stored_mu(mu), sigma)>>
  /\ UNCHANGED <<ad_op, action_in, action_out, obs_in, obs_once, obs_twice, net_out>>
  /\ UNCHANGED <<retVars, tdVars, runVars>>

NextAdapters == ProcessAction \/ PreprocObs \/ PreprocObsAgain \/ PolicyQuery

SpecAdapters == InitAdapters /\ [][NextAdapters]_vars

-----------------------------------------------------------------------------
(* learn_td_ac (lines 211-232).  self.value is a reference to a tensor     *)
(* object; a policy query binds it to the tensor the network has just      *)
(* produced (line 143).                                                    *)

TdGammaSet == {Rat(99, 100), Rat(1, 2)}
TdValueSet == {Rat(1, 2), Rat(3, 5), Int2Rat(10)}

\* line 143, self.value = value.to(cpu): [tensors, ref] after the assignment
bind_value_in_place(objects, ref, value) ==
  [tensors |-> [objects EXCEPT ![ref] = value], ref |-> ref]
bind_value(objects, ref, value) ==
  [tensors |-> Append(objects, value), ref |-> Len(objects) + 1]

\* get_action (line 171) has queried the policy before learn_td_ac is called
\* (lines 277-279), so self.value already refers to a tensor.
InitTD ==
  /\ RunIdle
  /\ RetIdle
  /\ AdIdle
  /\ self_gamma \in TdGammaSet
  /\ td_pc = "start"
  /\ td_args \in {[s_t |-> NdArray("s_t", "float64", <<4>>),
                   a_t |-> Tensor(<<1>>, <<Rat(1, 2)>>),
                   r |-> r, s_tp1 |-> NdArray("s_tp1", "float64", <<4>>),
                   done |-> d] : r \in RewardSet, d \in BOOLEAN}
  /\ \E v \in TdValueSet : tensors = <<v>>
  /\ value_ref = 1
  /\ v_st = 0
  /\ v_stp1 = 0
  /\ td_target = <<>>
  /\ td_err = <<>>
  /\ loss = <<>>
  /\ critic_outputs = <<>>

\* lines 221-223: the policy is queried on s_t; v_st = self.value
TdQuerySt ==
  /\ td_pc = "start"
  /\ preproc_obs(td_args.s_t).kind = "tensor"
  /\ \E value \in TdValueSet :
       LET b == bind_value(tensors, value_ref, value)
       IN  /\ tensors' = b.tensors
           /\ value_ref' = b.ref
           /\ v_st' = b.ref
           /\ critic_outputs' = Append(critic_outputs, value)
  /\ td_pc' = "queried_s_t"
  /\ UNCHANGED <<td_args, v_stp1, td_target, td_err, loss>>
  /\ UNCHANGED <<retVars, adVars, runVars>>

\* lines 224-225: the policy is queried on s_tp1; v_stp1 = self.value
TdQueryStp1 ==
  /\ td_pc = "queried_s_t"
  /\ preproc_obs(td_args.s_tp1).kind = "tensor"
  /\ \E value \in TdValueSet :
       LET b == bind_value(tensors, value_ref, value)
       IN  /\ tensors' = b.tensors
           /\ value_ref' = b.ref
           /\ v_stp1' = b.ref
           /\ critic_outputs' = Append(critic_outputs, value)
  /\ td_pc' = "queried_s_tp1"
  /\ UNCHANGED <<td_args, v_st, td_target, td_err, loss>>
  /\ UNCHANGED <<retVars, adVars, runVars>>

\* lines 226-228; the log-probability is not computed: the loss is kept as
\* -mean(log_prob + td_err^2) with log_prob named by the action it is of
TdLoss ==
  /\ td_pc = "queried_s_tp1"
  /\ LET target == RAdd(td_args.r, RMul(self_gamma, tensors[v_stp1]))   \* line 226
         err == RSub(target, tensors[v_st])                             \* line 227
     IN  /\ td_target' = <<target>>
         /\ td_err' = <<err>>
         /\ loss' = <<[neg_mean_of |-> [log_prob_of |-> td_args.a_t,
                                        td_err_pow_2 |-> RMul(err, err)]]>>
  /\ td_pc' = "loss"
  /\ UNCHANGED <<td_args, tensors, value_ref, v_st, v_stp1, critic_outputs>>
  /\ UNCHANGED <<retVars, adVars, runVars>>

\* lines 229-232: the loss is logged and the optimizer steps; the tensors
\* already produced keep their contents
TdOptimizerStep ==
  /\ td_pc = "loss"
  /\ td_pc' = "stepped"
  /\ UNCHANGED <<td_args, tensors, value_ref, v_st, v_stp1, td_target, td_err, loss,
                 critic_outputs>>
  /\ UNCHANGED <<retVars, adVars, runVars>>

NextTD == TdQuerySt \/ TdQueryStp1 \/ TdLoss \/ TdOptimizerStep

SpecTD == InitTD /\ [][NextTD]_vars

\* C6: td_target = r + gamma*V(s_tp1) and td_error = td_target - V(s_t), V(s_t)
\* being the critic output of the first policy query, not overwritten by the
\* second query; r=1, gamma=0.99, V(s_t)=0.5, V(s_tp1)=0.6 give td_target=1.594
\* and td_error=1.094.
C6_TdTargetAndError ==
  td_pc \in {"loss", "stepped"} =>
    LET V_st == critic_outputs[1]
        V_stp1 == critic_outputs[2]
    IN  /\ td_target = <<RAdd(td_args.r, RMul(self_gamma, V_stp1))>>
        /\ td_err = <<RSub(td_target[1], V_st)>>
        /\ tensors[v_st] = V_st
        /\ (td_args.r = One /\ self_gamma = Rat(99, 100) /\ V_st = Rat(1, 2)
              /\ V_stp1 = Rat(3, 5))
             => (td_target = <<Rat(1594, 1000)>> /\ td_err = <<Rat(1094, 1000)>>)

C6_Witness ==
  /\ td_pc = "stepped"
  /\ td_args.r = One
  /\ self_gamma = Rat(99, 100)
  /\ critic_outputs = <<Rat(1, 2), Rat(3, 5)>>
  /\ td_target = <<Rat(797, 500)>>
  /\ td_err = <<Rat(547, 500)>>

-----------------------------------------------------------------------------
(* Specification SpecReturn: calculate_n_step_return on bounded inputs,    *)
(* called the way learn() (line 235) calls it, possibly a second time on   *)
(* the same rewards after the critic's output for final_state changed.     *)

InitReturn ==
  /\ RunIdle
  /\ AdIdle
  /\ TdIdle
  /\ ret_pc = "ready"
  /\ self_gamma \in GammaSet
  /\ n_step_rewards \in SeqsUpTo(RewardSet, MaxRewards) \ {<<>>}
  /\ ret_done \in BOOLEAN
  /\ final_value \in ValueSet
  /\ g_t_n_s = <<>>
  /\ prev_call = <<>>

\* learn(), line 235: the gamma argument is self.gamma
CallReturn ==
  /\ ret_pc = "ready"
  /\ g_t_n_s' = calculate_n_step_return(self_gamma, n_step_rewards, final_value,
                                        ret_done, self_gamma)
  /\ ret_pc' = "returned"
  /\ UNCHANGED <<self_gamma, n_step_rewards, ret_done, final_value, prev_call>>
  /\ UNCHANGED <<adVars, tdVars, runVars>>

\* The network is updated (lines 238-240), so the critic gives another value for
\* the same final_state; the earlier call's result is kept for comparison.
ChangeFinalValue ==
  /\ ret_pc = "returned"
  /\ prev_call = <<>>
  /\ prev_call' = <<[final_value |-> final_value, g_t_n_s |-> g_t_n_s]>>
  /\ final_value' \in ValueSet
  /\ ret_pc' = "ready"
  /\ UNCHANGED <<self_gamma, n_step_rewards, ret_done, g_t_n_s>>
  /\ UNCHANGED <<adVars, tdVars, runVars>>

NextReturn == CallReturn \/ ChangeFinalValue

SpecReturn == InitReturn /\ [][NextReturn]_vars

-----------------------------------------------------------------------------
(* Claims about calculate_n_step_return                                    *)

\* r_t + gamma*r_{t+1} + ... + gamma^(n-t)*r_n, summed term by term (1-based t)
RECURSIVE DiscountedSum(_, _, _, _)
DiscountedSum(rs, gamma, t, j) ==
  IF j > Len(rs) THEN Zero
  ELSE RAdd(RMul(RPow(gamma, j - t), rs[j]), DiscountedSum(rs, gamma, t, j + 1))

\* C1: with done=True the function returns one return per reward, the return at
\* each index being the discounted sum of the rewards from that index on, so the
\* last return is the last reward; rewards [1,1,1] with gamma 0.5 give
\* [1.75, 1.5, 1.0].
C1_DiscountedSum ==
  (ret_pc = "returned" /\ ret_done) =>
    /\ Len(g_t_n_s) = Len(n_step_rewards)
    /\ \A t \in 1..Len(n_step_rewards) :
         g_t_n_s[t] = DiscountedSum(n_step_rewards, self_gamma, t, t)
    /\ g_t_n_s[Len(g_t_n_s)] = n_step_rewards[Len(n_step_rewards)]
    /\ (n_step_rewards = <<One, One, One>> /\ self_gamma = Rat(1, 2))
         => g_t_n_s = <<Rat(7, 4), Rat(3, 2), One>>

C1_Witness ==
  /\ ret_pc = "returned"
  /\ ret_done
  /\ n_step_rewards = <<One, One, One>>
  /\ self_gamma = Rat(1, 2)
  /\ g_t_n_s = <<Rat(7, 4), Rat(3, 2), One>>

\* The change of the return at 1-based index n-k between the earlier call and
\* this one, against gamma^e times the change of the critic's output
ShiftIs(k, e) ==
  LET n == Len(n_step_rewards)
      prev == prev_call[1]
  IN  RSub(g_t_n_s[n - k], prev.g_t_n_s[n - k])
        = RMul(RPow(self_gamma, e), RSub(final_value, prev.final_value))

\* C2 as stated: with done=False the last return is r_{n-1} + gamma*V(final_state),
\* and changing V(final_state) by deltaV changes the return at position n-1-k by
\* gamma^k * deltaV.
C2_ShiftGammaK ==
  (ret_pc = "returned" /\ ~ret_done) =>
    /\ g_t_n_s[Len(g_t_n_s)]
         = RAdd(n_step_rewards[Len(n_step_rewards)], RMul(self_gamma, final_value))
    /\ prev_call # <<>> => \A k \in 0..(Len(n_step_rewards) - 1) : ShiftIs(k, k)

\* C2 amended: with done=False the last return is r_{n-1} + gamma*V(final_state),
\* and changing V(final_state) by deltaV changes the return at position n-1-k by
\* gamma^(k+1) * deltaV; rewards [2] with gamma 0.9 and V(final)=10 give [11.0].
C2_ShiftGammaKPlus1 ==
  (ret_pc = "returned" /\ ~ret_done) =>
    /\ Len(g_t_n_s) = Len(n_step_rewards)
    /\ g_t_n_s[Len(g_t_n_s)]
         = RAdd(n_step_rewards[Len(n_step_rewards)], RMul(self_gamma, final_value))
    /\ prev_call # <<>> => \A k \in 0..(Len(n_step_rewards) - 1) : ShiftIs(k, k + 1)
    /\ (n_step_rewards = <<Int2Rat(2)>> /\ self_gamma = Rat(9, 10)
          /\ final_value = Int2Rat(10)) => g_t_n_s = <<Int2Rat(11)>>

C2_Witness ==
  /\ ret_pc = "returned"
  /\ ~ret_done
  /\ n_step_rewards = <<Int2Rat(1), Int2Rat(2)>>
  /\ self_gamma = Rat(9, 10)
  /\ prev_call # <<>>
  /\ prev_call[1].final_value = Zero
  /\ final_value = Int2Rat(10)
  /\ g_t_n_s = <<Rat(109, 10), Int2Rat(11)>>
  /\ prev_call[1].g_t_n_s = <<Rat(14, 5), Int2Rat(2)>>

-----------------------------------------------------------------------------
(* Claims about the adapters and the policy wrapper                        *)

\* A sample with k components: shape (k,), (1, k) or 0-dimensional
IsSampleVector(a) == Len(SqueezeShape(a.shape)) <= 1

\* C5 as stated: when the action has >= 2 components process_action returns
\* the second clamped to [0,1]; when it has >= 3 it returns the third clamped to
\* [0,1] plus 1e-4; every other component is returned unchanged, e.g.
\* [0.5, -0.2, 1.5] yields [0.5, 0.0, 1.0001].
C5_ClampsBrakeAndGas ==
  (ad_op = "process_action" /\ action_out # <<>> /\ IsSampleVector(action_in)) =>
    LET k == Len(action_in.flat)
        out == action_out[1]
    IN  /\ out.kind = "tensor"
        /\ out.shape = <<k>>
        /\ \A i \in 1..k :
             out.flat[i] =
               IF i = 2 THEN Clamp(action_in.flat[2], Zero, One)
               ELSE IF i = 3 THEN RAdd(Clamp(action_in.flat[3], Zero, One), Rat(1, 10000))
               ELSE action_in.flat[i]

CanonicalInput == obs_in.kind = "ndarray" /\ obs_in.shape = <<84, 84, 3>>

\* C7 as stated: on a canonical 84x84x3 input, preproc_obs applied to its own
\* result is defined and equals that result.
C7_Idempotent ==
  (ad_op = "preproc_obs" /\ CanonicalInput /\ obs_twice # <<>>) =>
    /\ obs_twice[1].kind = "tensor"
    /\ obs_twice[1] = obs_once[1]

\* C7 amended: on a canonical 84x84x3 array preproc_obs returns a float tensor
\* of shape (1, 3, 84, 84) holding the array's elements in the same row-major
\* order, and preproc_obs applied to that result is not defined: it raises
\* TypeError.
C7_BatchedOnceThenTypeError ==
  (ad_op = "preproc_obs" /\ CanonicalInput) =>
    /\ obs_once # <<>> =>
         /\ obs_once[1].kind = "tensor"
         /\ obs_once[1].dtype = "float32"
         /\ obs_once[1].shape = <<1, 3, 84, 84>>
         /\ obs_once[1].data = obs_in.data
    /\ obs_twice # <<>> => obs_twice[1] = Raised("TypeError")

C7_Witness ==
  /\ ad_op = "preproc_obs"
  /\ CanonicalInput
  /\ obs_once # <<>>
  /\ obs_once[1].shape = <<1, 3, 84, 84>>
  /\ obs_twice # <<>>

\* C8: the mean stored by the policy wrapper and given to the action
\* distribution lies in [-1, 1] in every component and equals the network's raw
\* mean wherever that is already in [-1, 1].
C8_MeanClamped ==
  (ad_op = "policy" /\ self_mu # <<>>) =>
    LET raw == net_out.mu.flat
        mu == self_mu[1]
    IN  /\ Len(mu.flat) = Len(raw)
        /\ action_distribution[1].loc = mu
        /\ \A i \in 1..Len(raw) :
             /\ RLeq(Int2Rat(-1), mu.flat[i]) /\ RLeq(mu.flat[i], One)
             /\ (RLeq(Int2Rat(-1), raw[i]) /\ RLeq(raw[i], One)) => mu.flat[i] = raw[i]

C8_Witness ==
  /\ ad_op = "policy"
  /\ self_mu # <<>>
  /\ net_out.mu.flat = <<Int2Rat(2), Rat(1, 2), Rat(-3, 2)>>
  /\ self_mu[1].flat = <<One, Rat(1, 2), Int2Rat(-1)>>
  /\ action_distribution[1].loc.flat = <<One, Rat(1, 2), Int2Rat(-1)>>

-----------------------------------------------------------------------------
(* get_action, calculate_loss, learn and run (lines 169-177, 195-209,      *)
(* 234-261)                                                                *)

MaxEpisodes == 2        \* largest max_episodes passed to run
MaxThresh == 2          \* largest n_step_learning_step_thresh passed to run
MaxEpisodeSteps == 2    \* the environment reports done at this step of an episode at the latest

RunGammaSet == {Rat(1, 2)}
RunRewardSet == {Int2Rat(1), Int2Rat(2)}
\* what action_distribution.sample() may return
RunSamples == {Tensor(<<3>>, <<Rat(1, 2), Rat(-1, 5), Rat(3, 2)>>)}

\* The environment (lines 244, 250): an observation is named by the episode and
\* the step of that episode it was produced at
EnvObservation(ep, t) == NdArray([ep |-> ep, t |-> t], "uint8", <<96, 96, 3>>)

\* self.actor_critic(x) (lines 137, 189): the outputs are a function of the
\* parameters, which change with every optimizer step, and of the input
actor_critic(th, x) ==
  [mu |-> Tensor(<<1, 3>>, <<Int2Rat(2), Rat(1, 2), Rat(-3, 2)>>),
   sigma |-> Tensor(<<1, 3>>, <<Zero, Zero, Zero>>),
   value |-> Tensor(<<1, 1>>, <<Rat(1 + th + x.data.src.t, 2)>>)]

\* line 176: self.trajectory.append(Transition(obs, value, action, log_prob_a))
record_transition_keep_last(traj, transition) == <<transition>>
record_transition(traj, transition) == Append(traj, transition)

\* line 251: self.rewards.append(reward)
record_reward(list, r) == Append(list, r)

\* line 253: if step_num >= n_step_learning_step_thresh or done
learn_trigger_after_thresh(n, thresh, is_done) == n > thresh \/ is_done
learn_trigger(n, thresh, is_done) == n >= thresh \/ is_done

\* lines 195-209; the losses are kept as the expressions they are computed by
calculate_loss(traj, td_targets) ==
  LET v_s_batch == [i \in DOMAIN traj |-> traj[i].value_s]             \* lines 201-202
      log_prob_a_batch == [i \in DOMAIN traj |-> traj[i].log_prob_a]   \* line 203
  IN  [actor_loss |-> [neg_mean_of |-> log_prob_a_batch],              \* line 207
       critic_loss |-> [smooth_l1_of |-> v_s_batch, target |-> td_targets]]  \* line 205

InitRun ==
  /\ RetIdle
  /\ AdIdle
  /\ TdIdle
  /\ self_gamma \in RunGammaSet
  /\ pc = "for"
  /\ max_episodes \in 0..MaxEpisodes
  /\ n_step_learning_step_thresh \in 1..MaxThresh
  /\ episode = -1
  /\ obs = NoObs
  /\ action = NoTensor
  /\ next_obs = NoObs
  /\ reward = Zero
  /\ done = FALSE
  /\ ep_reward = Zero
  /\ step_num = 0
  /\ trajectory = <<>>               \* line 127
  /\ rewards = <<>>                  \* line 128
  /\ global_step_num = 0             \* line 129
  /\ theta = 0
  /\ reward_steps = <<>>
  /\ window = <<>>
  /\ last_learn = <<>>
  /\ episodes_ended = 0

\* lines 243-247: the next episode begins
EpisodeReset ==
  /\ pc = "for"
  /\ episode + 1 < max_episodes
  /\ episode' = episode + 1
  /\ obs' = EnvObservation(episode + 1, 0)
  /\ done' = FALSE
  /\ ep_reward' = Zero
  /\ step_num' = 0
  /\ pc' = "while"
  /\ UNCHANGED <<max_episodes, n_step_learning_step_thresh, action, next_obs, reward,
                 trajectory, rewards, global_step_num, theta, reward_steps, window,
                 last_learn, episodes_ended>>
  /\ UNCHANGED <<retVars, adVars, tdVars>>

\* line 243: range(max_episodes) is exhausted and run returns
RunReturns ==
  /\ pc = "for"
  /\ ~(episode + 1 < max_episodes)
  /\ pc' = "finished"
  /\ UNCHANGED <<max_episodes, n_step_learning_step_thresh, episode, obs, action, next_obs,
                 reward, done, ep_reward, step_num, trajectory, rewards, global_step_num,
                 theta, reward_steps, window, last_learn, episodes_ended>>
  /\ UNCHANGED <<retVars, adVars, tdVars>>

\* lines 248-249 with get_action (lines 169-177) and the policy query it makes
GetAction ==
  /\ pc = "while"
  /\ ~done
  /\ LET x == preproc_obs(obs)                                        \* line 170
         out == actor_critic(theta, x)                               \* line 137
         mu == stored_mu(policy_mu(out.mu))
         sigma == policy_sigma(out.sigma)
         dist == MultivariateNormal(mu, sigma)
     IN  /\ x.kind = "tensor"
         /\ self_mu' = <<mu>>
         /\ self_sigma' = <<sigma>>
         /\ self_value' = <<out.value>>
         /\ action_distribution' = <<dist>>
         /\ \E sample \in RunSamples :                               \* line 173
              LET a == process_action(sample)                        \* line 175
              IN  /\ a.kind = "tensor"
                  /\ trajectory' = record_transition(trajectory,
                       [s |-> x, value_s |-> out.value, a |-> a,
                        log_prob_a |-> [log_prob_of |-> sample, under |-> dist]])
                  /\ action' = a
  /\ pc' = "step"
  /\ UNCHANGED <<max_episodes, n_step_learning_step_thresh, episode, obs, next_obs, reward,
                 done, ep_reward, step_num, rewards, global_step_num, theta, reward_steps,
                 window, last_learn, episodes_ended>>
  /\ UNCHANGED <<ad_op, action_in, action_out, obs_in, obs_once, obs_twice, net_out>>
  /\ UNCHANGED <<retVars, tdVars>>

\* lines 250-252: the environment steps; the reward is recorded
EnvStep ==
  /\ pc = "step"
  /\ next_obs' = EnvObservation(episode, step_num + 1)
  /\ reward' \in RunRewardSet
  /\ done' \in IF step_num + 1 >= MaxEpisodeSteps THEN {TRUE} ELSE BOOLEAN
  /\ rewards' = record_reward(rewards, reward')
  /\ reward_steps' = record_reward(reward_steps, [ep |-> episode, t |-> step_num + 1])
  /\ window' = Append(window, [ep |-> episode, t |-> step_num + 1])
  /\ step_num' = step_num + 1
  /\ pc' = "check"
  /\ UNCHANGED <<max_episodes, n_step_learning_step_thresh, episode, obs, action, ep_reward,
                 trajectory, global_step_num, theta, last_learn, episodes_ended>>
  /\ UNCHANGED <<retVars, adVars, tdVars>>

\* lines 253-254 with learn (lines 234-240): neither self.rewards nor
\* self.trajectory is changed by learn
Learn ==
  /\ pc = "check"
  /\ learn_trigger(step_num, n_step_learning_step_thresh, done)
  /\ LET x == preproc_obs(next_obs)
         v_final == actor_critic(theta, x).value.flat[1]
         td_targets == calculate_n_step_return(self_gamma, rewards, v_final, done,
                                               self_gamma)            \* line 235
     IN  /\ x.kind = "tensor"
         /\ last_learn' = <<[n_th_observation |-> next_obs, done |-> done,
                             rewards |-> rewards, reward_steps |-> reward_steps,
                             trajectory |-> trajectory, td_targets |-> td_targets,
                             loss |-> calculate_loss(trajectory, td_targets),   \* line 236
                             window |-> window]>>
  /\ theta' = theta + 1                                               \* lines 238-240
  /\ window' = <<>>
  /\ pc' = "post"
  /\ UNCHANGED <<max_episodes, n_step_learning_step_thresh, episode, obs, action, next_obs,
                 reward, done, ep_reward, step_num, trajectory, rewards, global_step_num,
                 reward_steps, episodes_ended>>
  /\ UNCHANGED <<retVars, adVars, tdVars>>

\* line 253, condition false
NoLearn ==
  /\ pc = "check"
  /\ ~learn_trigger(step_num, n_step_learning_step_thresh, done)
  /\ pc' = "post"
  /\ UNCHANGED <<max_episodes, n_step_learning_step_thresh, episode, obs, action, next_obs,
                 reward, done, ep_reward, step_num, trajectory, rewards, global_step_num,
                 theta, reward_steps, window, last_learn, episodes_ended>>
  /\ UNCHANGED <<retVars, adVars, tdVars>>

\* lines 255-259
StepEnd ==
  /\ pc = "post"
  /\ obs' = next_obs
  /\ ep_reward' = RAdd(ep_reward, reward)
  /\ global_step_num' = global_step_num + 1
  /\ pc' = "while"
  /\ UNCHANGED <<max_episodes, n_step_learning_step_thresh, episode, action, next_obs,
                 reward, done, step_num, trajectory, rewards, theta, reward_steps, window,
                 last_learn, episodes_ended>>
  /\ UNCHANGED <<retVars, adVars, tdVars>>

\* line 248 with done true, lines 260-261: the episode is over
EpisodeEnd ==
  /\ pc = "while"
  /\ done
  /\ episodes_ended' = episodes_ended + 1
  /\ pc' = "for"
  /\ UNCHANGED <<max_episodes, n_step_learning_step_thresh, episode, obs, action, next_obs,
                 reward, done, ep_reward, step_num, trajectory, rewards, global_step_num,
                 theta, reward_steps, window, last_learn>>
  /\ UNCHANGED <<retVars, adVars, tdVars>>

Next ==
  \/ EpisodeReset
  \/ RunReturns
  \/ GetAction
  \/ EnvStep
  \/ Learn
  \/ NoLearn
  \/ StepEnd
  \/ EpisodeEnd

Init == InitRun

Spec == Init /\ [][Next]_vars

\* run is one sequential thread of control: short of its end, control moves on.
\* (Every step of Next changes pc, and Next can step wherever pc is not
\* "finished".)
ControlAdvances ==
  /\ pc \notin {"idle", "finished"}
  /\ pc' \in {"for", "while", "step", "check", "post", "finished"}
  /\ pc' # pc

FairSpec == Spec /\ WF_pc(ControlAdvances)

-----------------------------------------------------------------------------
(* Claims about run and learn                                              *)

\* the observation a step acts on is the one produced by the step before it
ActsOn(transition, step) ==
  transition.s.data.src = [ep |-> step.ep, t |-> step.t - 1]

\* C3 as stated: at every learn call the rewards and the transitions read are
\* exactly those of the steps taken since the previous learn call, none of an
\* earlier window or episode among them.
C3_BuffersScopedToWindow ==
  last_learn # <<>> =>
    LET l == last_learn[1]
    IN  /\ l.reward_steps = l.window
        /\ Len(l.trajectory) = Len(l.window)
        /\ \A i \in 1..Len(l.window) : ActsOn(l.trajectory[i], l.window[i])

C9_BuffersAligned ==
  /\ [](last_learn # <<>> =>
         LET l == last_learn[1]
             n == Len(l.rewards)
         IN  /\ Len(l.trajectory) = n
             /\ Len(l.td_targets) = n
             /\ Len(l.reward_steps) = n
             /\ \A i \in 1..n : ActsOn(l.trajectory[i], l.reward_steps[i])
             /\ \A i \in 1..(n - 1) :
                  /\ \/ l.reward_steps[i].ep < l.reward_steps[i + 1].ep
                     \/ /\ l.reward_steps[i].ep = l.reward_steps[i + 1].ep
                        /\ l.reward_steps[i].t < l.reward_steps[i + 1].t
                  /\ l.td_targets[i]
                       = RAdd(l.rewards[i], RMul(self_gamma, l.td_targets[i + 1])))
  /\ [][ /\ (pc = "while" /\ pc' = "step") =>
              /\ Len(trajectory') = Len(trajectory) + 1
              /\ SubSeq(trajectory', 1, Len(trajectory)) = trajectory
              /\ rewards' = rewards
         /\ pc = "step" =>
              /\ rewards' = Append(rewards, reward')
              /\ trajectory' = trajectory ]_vars

C9_Witness ==
  /\ last_learn # <<>>
  /\ Len(last_learn[1].rewards) = 4
  /\ Len(last_learn[1].trajectory) = 4
  /\ Len(last_learn[1].td_targets) = 4
  /\ episode = 1
  /\ theta >= 3

\* C10: an episode is a reset, then steps of (act, environment step, reward
\* recorded, conditional learn), then its end; the step that reports done makes
\* exactly one learn call, with done=True and so a bootstrap value of 0,
\* whatever the threshold; nothing is selected or stepped after done until the
\* next reset; run ends, and it ends after exactly max_episodes episodes.
C10_EpisodeOrder ==
  /\ [][ /\ <<pc, pc'>> \in {<<"for", "while">>, <<"for", "finished">>, <<"while", "step">>,
                             <<"step", "check">>, <<"check", "post">>, <<"post", "while">>,
                             <<"while", "for">>}
         /\ (pc = "check" /\ done) =>
              /\ theta' = theta + 1
              /\ last_learn'[1].done
              /\ last_learn'[1].n_th_observation = next_obs
              /\ last_learn'[1].td_targets[Len(rewards)] = rewards[Len(rewards)]
         /\ (trajectory' # trajectory \/ rewards' # rewards) => ~done
         /\ (pc = "while" /\ done) => pc' = "for" ]_vars
  /\ [](pc = "finished" => (episodes_ended = max_episodes /\ episode = max_episodes - 1))
  /\ <>(pc = "finished")

C10_Witness ==
  /\ pc = "finished"
  /\ max_episodes = 2
  /\ episodes_ended = 2
  /\ n_step_learning_step_thresh = 2
  /\ step_num = 1
  /\ done
  /\ last_learn # <<>>
  /\ last_learn[1].done
  /\ Len(last_learn[1].rewards) >= 2
  /\ last_learn[1].td_targets[Len(rewards)] = rewards[Len(rewards)]

====
